---- MODULE Spec2Model ----
(***************************************************************************)
(* Model of crates/glaciers/src/matcher.rs: the two-stage matching of logs *)
(* and traces against an ABI catalog.                                      *)
(*                                                                         *)
(* A DataFrame is modelled as a bag of rows (a function row -> number of   *)
(* copies); a row is a function column name -> cell.  The matcher never    *)
(* relies on row order except in the `first()` that follows the sort by    *)
(* signature_count, and there the order among equal counts is whatever the *)
(* engine produces: it is modelled as a nondeterministic choice.           *)
(***************************************************************************)
EXTENDS Integers, Sequences, FiniteSets, Bags, TLC

\* ------------------------------------------------------------------ bounds
MaxAbi == 3
MaxRows == 2

\* --------------------------------------------------------- cells and nulls
NULL == "null"
NULL_U32 == 0 - 1
NumericCols == {"num_indexed_args", "num_indexed_args_right", "signature_count"}
Null(c) == IF c \in NumericCols THEN NULL_U32 ELSE NULL
IsNull(row, c) == row[c] = Null(c)

\* ---------------------------------------------------------------- schemas
topic0_alias == "topic0"
address_alias == "address"
selector_alias == "selector"
action_to == "action_to"
LogCols == {topic0_alias, "topic1", "topic2", "topic3", address_alias}
TraceCols == {selector_alias, action_to}
AbiCols == {"hash", "address", "full_signature", "name", "anonymous", "num_indexed_args"}

\* ------------------------------------------------------ bounded input sets
\* Catalog entries declare hash H1 at 0xAA or 0xBB, with either arity and any
\* signature or none, or hash H2 in the one entry OtherHashEntry.  Records
\* carry H1 or H2 and come from 0xAA or from 0xCC, an address no entry is
\* declared for.
AbiHashes == {"H1"}
AbiAddresses == {"0xAA", "0xBB"}
RecordAddresses == {"0xAA", "0xCC"}
Signatures == {"Transfer(address,uint256)", "Approve(address,uint256)"}
Arities == {1, 2}
NameOf(sig) ==
    CASE sig = "Transfer(address,uint256)" -> "Transfer"
      [] sig = "Approve(address,uint256)" -> "Approve"
      [] OTHER -> NULL
OtherHashEntry ==
    [hash |-> "H2", address |-> "0xAA", full_signature |-> "Approve(address,uint256)",
     name |-> "Approve", anonymous |-> "false", num_indexed_args |-> 2]
AbiEntries ==
    { [hash |-> h, address |-> a, full_signature |-> s, name |-> NameOf(s),
       anonymous |-> "false", num_indexed_args |-> n] :
          h \in AbiHashes, a \in AbiAddresses, s \in Signatures \cup {NULL}, n \in Arities }
    \cup {OtherHashEntry}
LogRows ==
    { [topic0 |-> "H1", topic1 |-> t1, topic2 |-> NULL, topic3 |-> NULL, address |-> a] :
          t1 \in {NULL, "0x01"}, a \in RecordAddresses }
    \cup { [topic0 |-> "H2", topic1 |-> NULL, topic2 |-> "0x02", topic3 |-> NULL,
            address |-> "0xAA"] }
TraceRows ==
    { [selector |-> "H1", action_to |-> a] : a \in RecordAddresses }
    \cup { [selector |-> "H2", action_to |-> "0xAA"] }

\* ------------------------------------------------------------ bag helpers
RECURSIVE SumF(_, _)
SumF(f, S) ==
    IF S = {} THEN 0
    ELSE LET x == CHOOSE y \in S : TRUE IN f[x] + SumF(f, S \ {x})

\* The bag holding, for every contribution <<row, origin, n>> of P, n copies of row.
Weight(Q) == SumF([p \in Q |-> p[3]], Q)
BagFrom(P) == [ row \in { p[1] : p \in P } |-> Weight({ p \in P : p[1] = row }) ]

RECURSIVE BagsOf(_, _)
BagsOf(U, n) ==
    IF n = 0 THEN {EmptyBag}
    ELSE LET B == BagsOf(U, n - 1)
         IN B \cup { b (+) SetToBag({u}) : b \in B, u \in U }

Rows(df) == DOMAIN df
Height(df) == BagCardinality(df)

\* --------------------------------------------------- relational operators
\* select(cols)
Project(row, cols) == [c \in cols |-> row[c]]
Select(df, cols) == BagFrom({ <<Project(row, cols), row, df[row]>> : row \in Rows(df) })

\* filter(pred)
Filter(df, keep) == BagFrom({ <<row, row, df[row]>> : row \in Rows(df) \cap keep })

\* with_column(lit(1) + topic1.is_not_null() + topic2.is_not_null() + topic3.is_not_null())
NotNull(row, c) == IF IsNull(row, c) THEN 0 ELSE 1
NumIndexedArgs(row) == 1 + NotNull(row, "topic1") + NotNull(row, "topic2") + NotNull(row, "topic3")
WithNumIndexedArgs(df) ==
    BagFrom({ <<[c \in DOMAIN row \cup {"num_indexed_args"} |->
                    IF c = "num_indexed_args" THEN NumIndexedArgs(row) ELSE row[c]],
                row, df[row]>> : row \in Rows(df) })

\* Left join: the right key columns are dropped, a right column whose name
\* the left side already has is suffixed, null keys match nothing.
Suffixed(c, lcols) == IF c \in lcols THEN c \o "_right" ELSE c
KeysEqual(l, r, leftOn, rightOn) ==
    \A i \in DOMAIN leftOn :
        /\ ~IsNull(l, leftOn[i])
        /\ ~IsNull(r, rightOn[i])
        /\ l[leftOn[i]] = r[rightOn[i]]
Range(s) == { s[i] : i \in DOMAIN s }
Extend(l, r, keep) ==
    [d \in DOMAIN l \cup { Suffixed(c, DOMAIN l) : c \in keep } |->
        IF d \in DOMAIN l THEN l[d] ELSE r[CHOOSE c \in keep : Suffixed(c, DOMAIN l) = d]]
JoinRow(l, r, rcols, rightOn) == Extend(l, r, rcols \ Range(rightOn))
NullRow(l, rcols, rightOn) == Extend(l, [c \in rcols |-> Null(c)], rcols \ Range(rightOn))
\* mutant: an inner join, rows without a match are dropped
LeftJoin_Inner(left, right, rcols, leftOn, rightOn) ==
    BagFrom(
      { <<JoinRow(p[1], p[2], rcols, rightOn), p, left[p[1]] * right[p[2]]>> :
            p \in { q \in Rows(left) \X Rows(right) :
                      KeysEqual(q[1], q[2], leftOn, rightOn) } })
LeftJoin(left, right, rcols, leftOn, rightOn) ==
    BagFrom(
      { <<JoinRow(p[1], p[2], rcols, rightOn), p, left[p[1]] * right[p[2]]>> :
            p \in { q \in Rows(left) \X Rows(right) :
                      KeysEqual(q[1], q[2], leftOn, rightOn) } }
      \cup
      { <<NullRow(l, rcols, rightOn), <<l>>, left[l]>> :
            l \in { m \in Rows(left) :
                      \A r \in Rows(right) : ~KeysEqual(m, r, leftOn, rightOn) } })

\* ------------------------------------------- match_logs_by_topic0_address
\* mutant: the address is left out of the join key
match_logs_by_topic0_address_NoAddress(log, abi) ==
    LeftJoin(WithNumIndexedArgs(log), abi, AbiCols,
             <<topic0_alias, "num_indexed_args">>, <<"hash", "num_indexed_args">>)
\* mutant: the arity is left out of the join key
match_logs_by_topic0_address_NoArity(log, abi) ==
    LeftJoin(WithNumIndexedArgs(log), abi, AbiCols,
             <<topic0_alias, address_alias>>, <<"hash", "address">>)
match_logs_by_topic0_address(log, abi) ==
    LeftJoin(WithNumIndexedArgs(log), abi, AbiCols,
             <<topic0_alias, address_alias, "num_indexed_args">>,
             <<"hash", "address", "num_indexed_args">>)

\* ----------------------------------------- match_traces_by_4bytes_address
\* mutant: the address is left out of the join key
match_traces_by_4bytes_address_SelectorOnly(trace, abi) ==
    LeftJoin(trace, abi, AbiCols, <<selector_alias>>, <<"hash">>)
match_traces_by_4bytes_address(trace, abi) ==
    LeftJoin(trace, abi, AbiCols, <<selector_alias, action_to>>, <<"hash", "address">>)

\* ------------------------------------------------ most frequent signature
\* group_by(groupKeys).agg([all().first(), len()]) . sort(signature_count desc)
\* . group_by(classKeys).agg([all().first()]) . drop([address, signature_count]):
\* per class the first row in sort order, i.e. the first() row of one of the
\* groups with the highest signature_count; which one under a tie, and which
\* member row first() sees, is the engine's order.
SignatureCount(abi, e, groupKeys) ==
    SumF(abi, { x \in Rows(abi) : Project(x, groupKeys) = Project(e, groupKeys) })
Classes(abi, classKeys) == { Project(e, classKeys) : e \in Rows(abi) }
\* mutant: the sort is ascending, first() sees a least frequent group
Top_LeastFrequent(abi, k, groupKeys, classKeys) ==
    { e \in Rows(abi) :
        /\ Project(e, classKeys) = k
        /\ \A x \in Rows(abi) :
              Project(x, classKeys) = k =>
                  SignatureCount(abi, x, groupKeys) >= SignatureCount(abi, e, groupKeys) }
Top(abi, k, groupKeys, classKeys) ==
    { e \in Rows(abi) :
        /\ Project(e, classKeys) = k
        /\ \A x \in Rows(abi) :
              Project(x, classKeys) = k =>
                  SignatureCount(abi, x, groupKeys) <= SignatureCount(abi, e, groupKeys) }
\* mutant: every group with the highest count is kept, not the first one only
MostFrequent_AllTop(abi, groupKeys, classKeys) ==
    { SetToBag({ Project(e, AbiCols \ {"address"}) :
                    e \in UNION { Top(abi, k, groupKeys, classKeys) :
                                    k \in Classes(abi, classKeys) } }) }
FirstRows(abi, K, first) ==
    { SetToBag({ Project(f[k], AbiCols \ {"address"}) : k \in K }) :
        f \in { g \in [K -> Rows(abi)] : \A k \in K : <<k, g[k]>> \in first } }
MostFrequent(abi, groupKeys, classKeys) ==
    FirstRows(abi, Classes(abi, classKeys),
              { <<Project(e, classKeys), e>> :
                    e \in UNION { Top(abi, k, groupKeys, classKeys) :
                                    k \in Classes(abi, classKeys) } })

LogGroupKeys == {"hash", "full_signature", "name", "anonymous", "num_indexed_args"}
\* mutant: the second group_by repeats the keys of the first
LogClassKeys_AsGroupKeys == {"hash", "full_signature", "name", "anonymous", "num_indexed_args"}
LogClassKeys == {"hash", "num_indexed_args"}
TraceGroupKeys == {"hash", "full_signature", "name"}
TraceClassKeys == {"hash"}
ReducedCols == AbiCols \ {"address"}

\* ------------------------------------------------------------------ state
VARIABLES fn, pc, abi_df,
          log_df, logs_1, logs_address_matched, logs_address_not_matched, logs_2, logs_df,
          trace_df, traces_1, traces_address_matched, traces_address_not_matched, trace_2,
          traces_df, most_frequent, rerun

logVars == <<log_df, logs_1, logs_address_matched, logs_address_not_matched, logs_2, logs_df>>
traceVars == <<trace_df, traces_1, traces_address_matched, traces_address_not_matched,
               trace_2, traces_df>>
vars == <<fn, pc, abi_df, logVars, traceVars, most_frequent, rerun>>

NothingComputed ==
    /\ most_frequent = EmptyBag /\ rerun = EmptyBag
    /\ logs_1 = EmptyBag /\ logs_address_matched = EmptyBag
    /\ logs_address_not_matched = EmptyBag /\ logs_2 = EmptyBag /\ logs_df = EmptyBag
    /\ traces_1 = EmptyBag /\ traces_address_matched = EmptyBag
    /\ traces_address_not_matched = EmptyBag /\ trace_2 = EmptyBag /\ traces_df = EmptyBag

\* a call of match_logs_by_topic0(log_df, abi_df)
InitLogs ==
    /\ pc = "start"
    /\ fn = "match_logs_by_topic0"
    /\ abi_df \in BagsOf(AbiEntries, MaxAbi)
    /\ log_df \in BagsOf(LogRows, MaxRows)
    /\ trace_df = EmptyBag
    /\ NothingComputed

\* a call of match_traces_by_4bytes(trace_df, abi_df)
InitTraces ==
    /\ pc = "start"
    /\ fn = "match_traces_by_4bytes"
    /\ abi_df \in BagsOf(AbiEntries, MaxAbi)
    /\ trace_df \in BagsOf(TraceRows, MaxRows)
    /\ log_df = EmptyBag
    /\ NothingComputed

Init == InitLogs \/ InitTraces

\* --------------------------------------------------- match_logs_by_topic0
HasSignature(row) == ~IsNull(row, "full_signature")
\* mutant: the filter on a null full_signature is missing
NoSignature_Always(row) == TRUE
NoSignature(row) == IsNull(row, "full_signature")

\* lines 66-70: the address-qualified join and the split of its result
LogsAddressStage ==
    /\ fn = "match_logs_by_topic0" /\ pc = "start"
    /\ logs_1' = match_logs_by_topic0_address(log_df, abi_df)
    /\ logs_address_matched' = Filter(logs_1', { r \in Rows(logs_1') : HasSignature(r) })
    /\ logs_address_not_matched' =
          Select(Filter(logs_1', { r \in Rows(logs_1') : NoSignature(r) }), LogCols)
    /\ pc' = "fallback"
    /\ UNCHANGED <<fn, abi_df, log_df, logs_2, logs_df, traceVars, most_frequent, rerun>>

\* mutant: the fallback rows are not stacked onto the address-matched rows
LogsFallbackStage_OnlyMatched ==
    /\ fn = "match_logs_by_topic0" /\ pc = "fallback"
    /\ \E reduced \in MostFrequent(abi_df, LogGroupKeys, LogClassKeys) :
          /\ most_frequent' = reduced
          /\ logs_2' = LeftJoin(WithNumIndexedArgs(logs_address_not_matched), reduced,
                                ReducedCols, <<topic0_alias, "num_indexed_args">>,
                                <<"hash", "num_indexed_args">>)
          /\ logs_df' = logs_address_matched
    /\ pc' = "done"
    /\ UNCHANGED <<fn, abi_df, log_df, logs_1, logs_address_matched,
                   logs_address_not_matched, traceVars, rerun>>

\* lines 73-108: the reduced catalog, the fallback join and the vstack
LogsFallbackStage ==
    /\ fn = "match_logs_by_topic0" /\ pc = "fallback"
    /\ \E reduced \in MostFrequent(abi_df, LogGroupKeys, LogClassKeys) :
          /\ most_frequent' = reduced
          /\ logs_2' = LeftJoin(WithNumIndexedArgs(logs_address_not_matched), reduced,
                                ReducedCols, <<topic0_alias, "num_indexed_args">>,
                                <<"hash", "num_indexed_args">>)
          /\ logs_df' = logs_address_matched (+) logs_2'
    /\ pc' = "done"
    /\ UNCHANGED <<fn, abi_df, log_df, logs_1, logs_address_matched,
                   logs_address_not_matched, traceVars, rerun>>

\* ------------------------------------------------- match_traces_by_4bytes
\* lines 151-154
TracesAddressStage ==
    /\ fn = "match_traces_by_4bytes" /\ pc = "start"
    /\ traces_1' = match_traces_by_4bytes_address(trace_df, abi_df)
    /\ traces_address_matched' = Filter(traces_1', { r \in Rows(traces_1') : HasSignature(r) })
    /\ traces_address_not_matched' =
          Select(Filter(traces_1', { r \in Rows(traces_1') : NoSignature(r) }), TraceCols)
    /\ pc' = "fallback"
    /\ UNCHANGED <<fn, abi_df, trace_df, trace_2, traces_df, logVars, most_frequent, rerun>>

\* mutant: the fallback joins on the address again
TracesFallbackStage_ByAddress ==
    /\ fn = "match_traces_by_4bytes" /\ pc = "fallback"
    /\ \E reduced \in MostFrequent(abi_df, TraceGroupKeys, TraceClassKeys) :
          /\ most_frequent' = reduced
          /\ trace_2' = match_traces_by_4bytes_address(traces_address_not_matched, abi_df)
          /\ traces_df' = traces_address_matched (+) trace_2'
    /\ pc' = "done"
    /\ UNCHANGED <<fn, abi_df, trace_df, traces_1, traces_address_matched,
                   traces_address_not_matched, logVars, rerun>>

\* lines 157-185
TracesFallbackStage ==
    /\ fn = "match_traces_by_4bytes" /\ pc = "fallback"
    /\ \E reduced \in MostFrequent(abi_df, TraceGroupKeys, TraceClassKeys) :
          /\ most_frequent' = reduced
          /\ trace_2' = LeftJoin(traces_address_not_matched, reduced, ReducedCols,
                                 <<selector_alias>>, <<"hash">>)
          /\ traces_df' = traces_address_matched (+) trace_2'
    /\ pc' = "done"
    /\ UNCHANGED <<fn, abi_df, trace_df, traces_1, traces_address_matched,
                   traces_address_not_matched, logVars, rerun>>

NextLogs == LogsAddressStage \/ LogsFallbackStage
NextTraces == TracesAddressStage \/ TracesFallbackStage
Next == NextLogs \/ NextTraces

\* either pipeline
Spec == Init /\ [][Next]_vars
\* the log pipeline alone, the trace pipeline alone
SpecLogs == InitLogs /\ [][NextLogs]_vars
SpecTraces == InitTraces /\ [][NextTraces]_vars

\* --------------- match_logs_by_topic0_address called on its own, then again
\* on the relation it returned
InitAddress ==
    /\ pc = "start"
    /\ fn = "match_logs_by_topic0_address"
    /\ abi_df \in BagsOf(AbiEntries, MaxAbi)
    /\ log_df \in BagsOf(LogRows, MaxRows)
    /\ trace_df = EmptyBag
    /\ NothingComputed

AddressMatch ==
    /\ fn = "match_logs_by_topic0_address" /\ pc = "start"
    /\ logs_1' = match_logs_by_topic0_address(log_df, abi_df)
    /\ pc' = "matched"
    /\ UNCHANGED <<fn, abi_df, log_df, logs_address_matched, logs_address_not_matched,
                   logs_2, logs_df, traceVars, most_frequent, rerun>>

AddressRematch ==
    /\ fn = "match_logs_by_topic0_address" /\ pc = "matched"
    /\ rerun' = match_logs_by_topic0_address(logs_1, abi_df)
    /\ pc' = "done"
    /\ UNCHANGED <<fn, abi_df, logVars, traceVars, most_frequent>>

NextAddress == AddressMatch \/ AddressRematch

SpecAddress == InitAddress /\ [][NextAddress]_vars

\* =================================================================== claims
\* Copies of the input record r among the rows of df (df's rows extend the
\* input schema cols).
CopiesOf(r, df, cols) == SumF(df, { o \in Rows(df) : Project(o, cols) = r })
OutputsOf(r, df, cols) == { o \in Rows(df) : Project(o, cols) = r }
EntryCopies(abi, keys, e) ==
    SumF(abi, { x \in Rows(abi) : Project(x, keys) = Project(e, keys) })
UniqueKeys(abi, keys) == \A e \in Rows(abi) : EntryCopies(abi, keys, e) = 1
Signed(row) == row["full_signature"] # NULL
Unsigned(row) == row["full_signature"] = NULL
TripleKeys == {"hash", "address", "num_indexed_args"}
PairKeys == {"hash", "address"}
LogsDone == fn = "match_logs_by_topic0" /\ pc = "done"
TracesDone == fn = "match_traces_by_4bytes" /\ pc = "done"
LogTripleMatches(r, e) ==
    /\ e["hash"] = r[topic0_alias]
    /\ e["address"] = r[address_alias]
    /\ e["num_indexed_args"] = NumIndexedArgs(r)
LogClassOf(r) == { e \in Rows(abi_df) :
                     e["hash"] = r[topic0_alias] /\ e["num_indexed_args"] = NumIndexedArgs(r) }
NoLogAddressMatch(r) == \A e \in Rows(abi_df) : ~LogTripleMatches(r, e)
TracePairMatches(r, e) == e["hash"] = r[selector_alias] /\ e["address"] = r[action_to]

\* C1: with unique (hash, address, num_indexed_args) triples in the catalog,
\* match_logs_by_topic0 returns as many rows as the log relation has, every
\* input log record exactly once.
C1_LogCoverage ==
    (LogsDone /\ UniqueKeys(abi_df, TripleKeys)) =>
        /\ Height(logs_df) = Height(log_df)
        /\ \A r \in Rows(log_df) : CopiesOf(r, logs_df, LogCols) = log_df[r]
        /\ \A o \in Rows(logs_df) : Project(o, LogCols) \in Rows(log_df)
C1_Witness ==
    /\ LogsDone /\ UniqueKeys(abi_df, TripleKeys)
    /\ Height(log_df) = 2
    /\ Height(logs_address_matched) = 1
    /\ \E o \in Rows(logs_2) : Signed(o)

\* C2 as stated: with unique (hash, address, num_indexed_args) triples in the
\* catalog, match_traces_by_4bytes returns as many rows as the trace relation has.
C2_TraceCoverageUniqueTriples ==
    (TracesDone /\ UniqueKeys(abi_df, TripleKeys)) =>
        /\ Height(traces_df) = Height(trace_df)
        /\ \A r \in Rows(trace_df) : CopiesOf(r, traces_df, TraceCols) = trace_df[r]
\* C2 amended: with unique (hash, address) pairs in the catalog,
\* match_traces_by_4bytes returns as many rows as the trace relation has, every
\* input trace record exactly once.
C2_TraceCoverage ==
    (TracesDone /\ UniqueKeys(abi_df, PairKeys)) =>
        /\ Height(traces_df) = Height(trace_df)
        /\ \A r \in Rows(trace_df) : CopiesOf(r, traces_df, TraceCols) = trace_df[r]
        /\ \A o \in Rows(traces_df) : Project(o, TraceCols) \in Rows(trace_df)
C2_Witness ==
    /\ TracesDone /\ UniqueKeys(abi_df, PairKeys)
    /\ Height(trace_df) = 2
    /\ Height(traces_address_matched) = 1
    /\ \E o \in Rows(trace_2) : Signed(o)

\* C3: a log record whose (topic0, address, num_indexed_args) is the key triple
\* of a catalog entry with a non-null full_signature carries that signature in
\* the output of match_logs_by_topic0, whatever other addresses declare; with
\* unique triples it carries no other signature.
C3_AddressMatchPriority ==
    LogsDone =>
        \A r \in Rows(log_df) : \A e \in Rows(abi_df) :
            (LogTripleMatches(r, e) /\ Signed(e)) =>
                /\ \E o \in OutputsOf(r, logs_df, LogCols) :
                      /\ o["full_signature"] = e["full_signature"]
                      /\ logs_df[o] >= log_df[r]
                /\ UniqueKeys(abi_df, TripleKeys) =>
                      \A o \in OutputsOf(r, logs_df, LogCols) :
                          o["full_signature"] = e["full_signature"]
C3_Witness ==
    /\ LogsDone /\ UniqueKeys(abi_df, TripleKeys)
    /\ \E r \in Rows(log_df) : \E e, x \in Rows(abi_df) :
          /\ LogTripleMatches(r, e) /\ Signed(e)
          /\ x \in LogClassOf(r) /\ Signed(x)
          /\ x["full_signature"] # e["full_signature"]
          /\ \A o \in OutputsOf(r, logs_df, LogCols) : o["full_signature"] = e["full_signature"]

\* C4: a log record with no address-qualified match whose (topic0,
\* num_indexed_args) occurs in the catalog receives the full_signature of the
\* group with strictly the highest row count for that hash and arity; when the
\* entries for that hash and arity carry one single signature it receives that one.
StrictlyMostFrequent(r, g) ==
    /\ g \in LogClassOf(r)
    /\ \A x \in LogClassOf(r) :
          Project(x, LogGroupKeys) # Project(g, LogGroupKeys) =>
              SignatureCount(abi_df, x, LogGroupKeys) < SignatureCount(abi_df, g, LogGroupKeys)
C4_MajorityFallback ==
    LogsDone =>
        \A r \in Rows(log_df) :
            (NoLogAddressMatch(r) /\ LogClassOf(r) # {}) =>
                /\ \A g \in LogClassOf(r) :
                      StrictlyMostFrequent(r, g) =>
                          /\ CopiesOf(r, logs_df, LogCols) = log_df[r]
                          /\ \A o \in OutputsOf(r, logs_df, LogCols) :
                                o["full_signature"] = g["full_signature"]
                /\ \A s \in Signatures :
                      { x["full_signature"] : x \in LogClassOf(r) } = {s} =>
                          /\ OutputsOf(r, logs_df, LogCols) # {}
                          /\ \A o \in OutputsOf(r, logs_df, LogCols) : o["full_signature"] = s
C4_Witness ==
    /\ LogsDone
    /\ \E r \in Rows(log_df) : \E g, x \in LogClassOf(r) :
          /\ NoLogAddressMatch(r)
          /\ StrictlyMostFrequent(r, g)
          /\ Signed(g) /\ Signed(x)
          /\ x["full_signature"] # g["full_signature"]
          /\ \E o \in OutputsOf(r, logs_df, LogCols) : o["full_signature"] = g["full_signature"]

\* C5: in both pipelines a record whose hash is the hash of no catalog entry is
\* in the output exactly once, with a null full_signature.
C5_NoMatch ==
    /\ LogsDone =>
          \A r \in Rows(log_df) :
              (\A e \in Rows(abi_df) : e["hash"] # r[topic0_alias]) =>
                  /\ CopiesOf(r, logs_df, LogCols) = log_df[r]
                  /\ \A o \in OutputsOf(r, logs_df, LogCols) : Unsigned(o)
    /\ TracesDone =>
          \A r \in Rows(trace_df) :
              (\A e \in Rows(abi_df) : e["hash"] # r[selector_alias]) =>
                  /\ CopiesOf(r, traces_df, TraceCols) = trace_df[r]
                  /\ \A o \in OutputsOf(r, traces_df, TraceCols) : Unsigned(o)
C5_Witness ==
    /\ TracesDone
    /\ Height(abi_df) = MaxAbi
    /\ \E r \in Rows(trace_df) :
          /\ \A e \in Rows(abi_df) : e["hash"] # r[selector_alias]
          /\ CopiesOf(r, traces_df, TraceCols) = 1
          /\ \A o \in OutputsOf(r, traces_df, TraceCols) : Unsigned(o)
    /\ \E o \in Rows(traces_df) : Signed(o)

\* C7: a trace record whose (selector, action_to) is no catalog (hash, address)
\* pair, and whose selector is the hash of catalog entries that all carry one
\* single signature, receives that signature.
C7_TraceFallbackIgnoresAddress ==
    TracesDone =>
        \A r \in Rows(trace_df) : \A s \in Signatures :
            ( /\ \A e \in Rows(abi_df) : ~TracePairMatches(r, e)
              /\ { e["full_signature"] : e \in { x \in Rows(abi_df) : x["hash"] = r[selector_alias] } }
                    = {s} ) =>
                /\ CopiesOf(r, traces_df, TraceCols) = trace_df[r]
                /\ \A o \in OutputsOf(r, traces_df, TraceCols) : o["full_signature"] = s
C7_Witness ==
    /\ TracesDone
    /\ \E r \in Rows(trace_df) : \E e, x \in Rows(abi_df) :
          /\ \A y \in Rows(abi_df) : ~TracePairMatches(r, y)
          /\ e["hash"] = r[selector_alias] /\ x["hash"] = r[selector_alias]
          /\ e["address"] # x["address"]
          /\ \A y \in Rows(abi_df) : y["full_signature"] = e["full_signature"]
          /\ Signed(e)
          /\ \E o \in OutputsOf(r, traces_df, TraceCols) :
                o["full_signature"] = e["full_signature"]

\* C8: under an exact count tie between the most frequent groups for its
\* (topic0, num_indexed_args), a log record with no address-qualified match is
\* output once and carries the signature of one of the tied groups (a non-null
\* one when the tied groups all have one).
TiedGroups(r) ==
    { e \in LogClassOf(r) :
        \A x \in LogClassOf(r) :
            SignatureCount(abi_df, x, LogGroupKeys) <= SignatureCount(abi_df, e, LogGroupKeys) }
IsTie(r) == \E e, x \in TiedGroups(r) : Project(e, LogGroupKeys) # Project(x, LogGroupKeys)
KeyedUniquely(df, keys) ==
    \A x \in Rows(df) :
        /\ df[x] = 1
        /\ \A y \in Rows(df) : Project(x, keys) = Project(y, keys) => x = y
C10_ReducedCatalogKeyed ==
    /\ LogsDone =>
          /\ KeyedUniquely(most_frequent, {"hash", "num_indexed_args"})
          /\ Height(logs_2) = Height(logs_address_not_matched)
    /\ TracesDone =>
          /\ KeyedUniquely(most_frequent, {"hash"})
          /\ Height(trace_2) = Height(traces_address_not_matched)
C10_Witness ==
    /\ LogsDone
    /\ \E r \in Rows(logs_address_not_matched) : IsTie(r)
    /\ Height(most_frequent) = 2
    /\ Height(logs_2) = 2

\* C9 as stated: every input record starts Unresolved and ends in exactly one of
\* AddressMatched, HashFallbackMatched, Unmatched; the fallback stage sees only
\* records the address stage left without a signature, at most once each, and
\* never sees or alters an AddressMatched record.
AddressMatched(r, matched, cols) == \E o \in Rows(matched) : Project(o, cols) = r
PassedToFallback(r, notMatched) == r \in Rows(notMatched)
HashFallbackMatched(r, second, cols) == \E o \in Rows(second) : Project(o, cols) = r /\ Signed(o)
Unmatched(r, second, cols) == \E o \in Rows(second) : Project(o, cols) = r /\ Unsigned(o)
ExactlyOne(a, b, c) == (a /\ ~b /\ ~c) \/ (~a /\ b /\ ~c) \/ (~a /\ ~b /\ c)
Staged(r, input, first, matched, notMatched, second, out, cols) ==
    /\ PassedToFallback(r, notMatched) =>
          \E o \in Rows(first) : Project(o, cols) = r /\ Unsigned(o)
    /\ ~(AddressMatched(r, matched, cols) /\ PassedToFallback(r, notMatched))
    /\ pc = "done" =>
          /\ ExactlyOne(AddressMatched(r, matched, cols),
                        HashFallbackMatched(r, second, cols),
                        Unmatched(r, second, cols))
          /\ CopiesOf(r, second, cols) <= input[r]
          /\ AddressMatched(r, matched, cols) =>
                \A o \in OutputsOf(r, out, cols) : o \in Rows(matched) /\ out[o] = matched[o]
StagingHolds ==
    /\ pc = "start" => NothingComputed
    /\ (fn = "match_logs_by_topic0" /\ pc # "start") =>
          \A r \in Rows(log_df) :
              Staged(r, log_df, logs_1, logs_address_matched, logs_address_not_matched,
                     logs_2, logs_df, LogCols)
    /\ (fn = "match_traces_by_4bytes" /\ pc # "start") =>
          \A r \in Rows(trace_df) :
              Staged(r, trace_df, traces_1, traces_address_matched,
                     traces_address_not_matched, trace_2, traces_df, TraceCols)
C9_StagingAnyCatalog == StagingHolds
\* C9 amended: the same, for every catalog in which an entry with a null
\* full_signature is the only entry with its address-stage join key ((hash,
\* address, num_indexed_args) for logs, (hash, address) for traces).
NullEntriesAlone(abi, keys) ==
    \A e \in Rows(abi) : Unsigned(e) => EntryCopies(abi, keys, e) = 1
C9_Staging ==
    IF fn = "match_logs_by_topic0"
    THEN NullEntriesAlone(abi_df, TripleKeys) => StagingHolds
    ELSE NullEntriesAlone(abi_df, PairKeys) => StagingHolds
C9_Witness ==
    /\ LogsDone /\ NullEntriesAlone(abi_df, TripleKeys)
    /\ \E r, q \in Rows(log_df) :
          /\ AddressMatched(r, logs_address_matched, LogCols)
          /\ HashFallbackMatched(q, logs_2, LogCols)
    /\ \E e \in Rows(abi_df) : Unsigned(e)

\* C6 as stated: with unique catalog triples, match_logs_by_topic0_address
\* applied to its own output returns a relation equal to that output (same
\* rows, same columns, same values).
AddressDone == fn = "match_logs_by_topic0_address" /\ pc = "done"
C6_RematchEqual ==
    (AddressDone /\ UniqueKeys(abi_df, TripleKeys)) => rerun = logs_1
\* C6 amended: with unique catalog triples, the second application returns as
\* many rows as the first, leaves every column of the first output as it was,
\* and appends full_signature_right, name_right and anonymous_right, equal to
\* full_signature, name and anonymous.
FirstOutputCols == LogCols \cup {"num_indexed_args", "full_signature", "name", "anonymous"}
C6_RematchKeepsColumns ==
    (AddressDone /\ UniqueKeys(abi_df, TripleKeys)) =>
        /\ Height(rerun) = Height(logs_1)
        /\ Select(rerun, FirstOutputCols) = logs_1
        /\ \A o \in Rows(rerun) :
              /\ DOMAIN o = FirstOutputCols
                              \cup {"full_signature_right", "name_right", "anonymous_right"}
              /\ o["full_signature_right"] = o["full_signature"]
              /\ o["name_right"] = o["name"]
              /\ o["anonymous_right"] = o["anonymous"]
C6_Witness ==
    /\ AddressDone /\ UniqueKeys(abi_df, TripleKeys)
    /\ Height(log_df) = 2 /\ Height(rerun) = 2
    /\ \E o \in Rows(rerun) : Signed(o)
    /\ \E o \in Rows(rerun) : Unsigned(o)

====
